---- MODULE Spec2Model ----
(***************************************************************************)
(* Model of src/git_demo/main.py: the bathymetry downloader               *)
(* (DomainGeometry, EMODnetBathymetryDownloader.download_data) and the    *)
(* main() script that fetches, prints, plots and then saves or shows.     *)
(*                                                                         *)
(* Strings are sequences of one-character strings.  The file system is a  *)
(* tree of nodes; a node is the sequence of names leading to it from the  *)
(* root directory <<>>.  Coordinates are in tenths of a degree.           *)
(***************************************************************************)
EXTENDS Integers, Sequences, FiniteSets, TLC

VARIABLES
    pc,           \* position of main(): the next statement group to run
    argv,         \* the command line: [kind, value]
    args_output,  \* args.output after parse_args: [isNone, str]
    domain,       \* the DomainGeometry handed to the downloader
    remote,       \* the remote source: [up, lon, lat, vars]
    dataset,      \* the value returned by download_data: [has, lon, lat, vars]
    figure,       \* TRUE once the figure has been created and plotted
    filename,     \* the local variable filename of the save branch
    fs,           \* the file system: [dirs, files], sets of nodes
    fs0,          \* the file system as it was when the run started
    cwd,          \* the current working directory, a node of fs.dirs
    stdout,       \* the lines printed so far
    shown,        \* TRUE once plt.show() has been called
    saved,        \* the paths plt.savefig has written to, in order
    fault,        \* the uncaught exception that ended the run, or "none"
    log,          \* the steps main() has executed, in order
    fetches       \* the number of calls of xr.open_dataset

vars == <<pc, argv, args_output, domain, remote, dataset, figure, filename,
          fs, fs0, cwd, stdout, shown, saved, fault, log, fetches>>

----------------------------------------------------------------------------
(* Bounds of the model                                                     *)

MaxLen == 5          \* longest --output value tried
MaxCoord == 2        \* grid and box coordinates range over 0..MaxCoord

----------------------------------------------------------------------------
(* Strings                                                                 *)

Char == {"a", "/", "."}

Strings(n) == UNION {[1..k -> Char] : k \in 0..n}

sep == "/"

PngExt == <<".", "p", "n", "g">>

DefaultName == <<"b", "a", "t", "h", "y", "m", "e", "t", "r", "y">> \o PngExt

\* p.rfind(ch) + 1: the 1-based index of the last ch in p, 0 when there is none
RFind(p, ch) ==
    LET hits == {i \in 1..Len(p) : p[i] = ch}
    IN  IF hits = {} THEN 0 ELSE CHOOSE i \in hits : \A j \in hits : j <= i

AllSep(p) == \A i \in 1..Len(p) : p[i] = sep

\* p.rstrip('/')
RStripSep(p) ==
    LET keep == {i \in 1..Len(p) : p[i] # sep}
        last == IF keep = {} THEN 0 ELSE CHOOSE i \in keep : \A j \in keep : j <= i
    IN  SubSeq(p, 1, last)

\* posixpath.split(p) = <<head, tail>>
split(p) ==
    LET i    == RFind(p, sep)
        head == SubSeq(p, 1, i)
        tail == SubSeq(p, i + 1, Len(p))
    IN  <<IF head # <<>> /\ ~AllSep(head) THEN RStripSep(head) ELSE head, tail>>

\* posixpath.dirname(p)
dirname(p) == split(p)[1]

\* posixpath.splitext(p) = <<root, ext>>
splitext(p) ==
    LET sepIndex == RFind(p, sep)
        dotIndex == RFind(p, ".")
    IN  IF dotIndex > sepIndex
           /\ \E k \in (sepIndex + 1)..(dotIndex - 1) : p[k] # "."
        THEN <<SubSeq(p, 1, dotIndex - 1), SubSeq(p, dotIndex, Len(p))>>
        ELSE <<p, <<>> >>

\* A plausible slip: the separator is left out
join_nosep(a, b) == a \o b

\* posixpath.join(a, b)
join(a, b) ==
    IF b # <<>> /\ b[1] = sep THEN b
    ELSE IF a = <<>> \/ a[Len(a)] = sep THEN a \o b
    ELSE a \o <<sep>> \o b

----------------------------------------------------------------------------
(* The file system, as the os and os.path calls of main() see it          *)

RECURSIVE Comps(_, _, _)
Comps(p, i, cur) ==
    IF i > Len(p) THEN <<cur>>
    ELSE IF p[i] = sep THEN <<cur>> \o Comps(p, i + 1, <<>>)
    ELSE Comps(p, i + 1, Append(cur, p[i]))

\* p.split('/'): the names between the separators, empty names included
Components(p) == Comps(p, 1, <<>>)

Parent(node) == IF node = <<>> THEN <<>> ELSE SubSeq(node, 1, Len(node) - 1)

\* Path resolution of the kernel, from directory node over comps[i..]
RECURSIVE Walk(_, _, _, _)
Walk(F, node, comps, i) ==
    IF i > Len(comps) THEN [st |-> "ok", node |-> node, final |-> TRUE]
    ELSE LET c == comps[i] IN
         IF c = <<>> \/ c = <<".">> THEN Walk(F, node, comps, i + 1)
         ELSE IF c = <<".", ".">> THEN Walk(F, Parent(node), comps, i + 1)
         ELSE LET next == Append(node, c) IN
              IF next \in F.dirs THEN Walk(F, next, comps, i + 1)
              ELSE IF next \in F.files
                   THEN IF i = Len(comps)
                        THEN [st |-> "ok", node |-> next, final |-> TRUE]
                        ELSE [st |-> "ENOTDIR", node |-> next, final |-> FALSE]
              ELSE [st |-> "ENOENT", node |-> next, final |-> (i = Len(comps))]

\* os.stat(p) with working directory c
Resolve(F, c, p) ==
    IF p = <<>> THEN [st |-> "ENOENT", node |-> <<>>, final |-> FALSE]
    ELSE Walk(F, IF p[1] = sep THEN <<>> ELSE c, Components(p), 1)

\* os.path.exists(p)
exists(F, c, p) == Resolve(F, c, p).st = "ok"

\* os.path.isdir(p)
isdir(F, c, p) ==
    LET r == Resolve(F, c, p) IN r.st = "ok" /\ r.node \in F.dirs

\* p without its trailing separators, as the kernel takes the last name of a
\* path to create; a path of separators only is the root and is kept
StripTrailing(p) == IF AllSep(p) THEN p ELSE RStripSep(p)

\* os.mkdir(p): the file system afterwards and the exception raised
mkdir(F, c, p) ==
    LET r == Resolve(F, c, StripTrailing(p)) IN
    IF r.st = "ok" THEN [fs |-> F, err |-> "FileExistsError"]
    ELSE IF r.st = "ENOTDIR" THEN [fs |-> F, err |-> "NotADirectoryError"]
    ELSE IF r.final
         THEN [fs |-> [F EXCEPT !.dirs = @ \cup {r.node}], err |-> "none"]
    ELSE [fs |-> F, err |-> "FileNotFoundError"]

\* A plausible slip: os.mkdir(name) with exist_ok semantics, no recursion
makedirs_single(F, c, name) ==
    LET m == mkdir(F, c, name) IN
    IF m.err # "none" /\ isdir(F, c, name) THEN [fs |-> F, err |-> "none"] ELSE m

\* os.makedirs(name, exist_ok=True)
RECURSIVE makedirs(_, _, _)
makedirs(F, c, name) ==
    LET s0      == split(name)
        s       == IF s0[2] = <<>> THEN split(s0[1]) ELSE s0
        head    == s[1]
        tail    == s[2]
        recurse == head # <<>> /\ tail # <<>> /\ ~exists(F, c, head)
        r1      == IF recurse THEN makedirs(F, c, head)
                   ELSE [fs |-> F, err |-> "none"]
    IN  IF r1.err \notin {"none", "FileExistsError"} THEN r1
        ELSE IF recurse /\ tail = <<".">> THEN [fs |-> r1.fs, err |-> "none"]
        ELSE LET m == mkdir(r1.fs, c, name) IN
             IF m.err # "none" /\ isdir(r1.fs, c, name)
             THEN [fs |-> r1.fs, err |-> "none"]
             ELSE m

\* open(p, "wb"): creates or truncates the file
OpenWrite(F, c, p) ==
    LET r        == Resolve(F, c, StripTrailing(p))
        trailing == p # <<>> /\ p[Len(p)] = sep
    IN
    IF r.st = "ok"
    THEN IF trailing \/ r.node \in F.dirs
         THEN [fs |-> F, err |-> "IsADirectoryError"]
         ELSE [fs |-> F, err |-> "none"]
    ELSE IF r.st = "ENOTDIR" THEN [fs |-> F, err |-> "NotADirectoryError"]
    ELSE IF r.final
         THEN IF trailing THEN [fs |-> F, err |-> "IsADirectoryError"]
              ELSE [fs |-> [F EXCEPT !.files = @ \cup {r.node}], err |-> "none"]
    ELSE [fs |-> F, err |-> "FileNotFoundError"]

UpperCase == <<"A", "B", "C", "D", "E", "F", "G", "H", "I", "J", "K", "L", "M",
               "N", "O", "P", "Q", "R", "S", "T", "U", "V", "W", "X", "Y", "Z">>

LowerCase == <<"a", "b", "c", "d", "e", "f", "g", "h", "i", "j", "k", "l", "m",
               "n", "o", "p", "q", "r", "s", "t", "u", "v", "w", "x", "y", "z">>

\* str.lower()
lower(p) ==
    [i \in 1..Len(p) |->
        IF \E k \in 1..26 : UpperCase[k] = p[i]
        THEN LowerCase[CHOOSE k \in 1..26 : UpperCase[k] = p[i]]
        ELSE p[i]]

\* p.rstrip('.')
RStripDot(p) ==
    LET keep == {i \in 1..Len(p) : p[i] # "."}
        last == IF keep = {} THEN 0 ELSE CHOOSE i \in keep : \A j \in keep : j <= i
    IN  SubSeq(p, 1, last)

\* The file types the figure canvas can write
SupportedFormats ==
    {<<"p", "n", "g">>, <<"p", "d", "f">>, <<"p", "s">>, <<"e", "p", "s">>,
     <<"s", "v", "g">>, <<"s", "v", "g", "z">>, <<"p", "g", "f">>,
     <<"j", "p", "g">>, <<"j", "p", "e", "g">>, <<"t", "i", "f">>,
     <<"t", "i", "f", "f">>, <<"r", "a", "w">>, <<"r", "g", "b", "a">>,
     <<"w", "e", "b", "p">>}

\* The format plt.savefig(fname) takes from the name and the name it writes:
\* the extension without its dot; when that is empty the format is png and
\* the name becomes fname.rstrip('.') + '.png'
SaveTarget(fname) ==
    LET ext == splitext(fname)[2]
        fmt == IF ext = <<>> THEN <<>> ELSE Tail(ext)
    IN  IF fmt = <<>>
        THEN [format |-> <<"p", "n", "g">>, name |-> RStripDot(fname) \o PngExt]
        ELSE [format |-> lower(fmt), name |-> fname]

\* plt.savefig(fname): the file system afterwards, the exception raised and
\* the name written
savefig(F, c, fname) ==
    LET t == SaveTarget(fname) IN
    IF t.format \notin SupportedFormats
    THEN [fs |-> F, err |-> "ValueError", name |-> t.name]
    ELSE LET r == OpenWrite(F, c, t.name)
         IN  [fs |-> r.fs, err |-> r.err, name |-> t.name]

----------------------------------------------------------------------------
(* DomainGeometry and EMODnetBathymetryDownloader                          *)

\* DomainGeometry(minimum_latitude, maximum_latitude, minimum_longitude,
\* maximum_longitude)
DomainGeometry(minlat, maxlat, minlon, maxlon) ==
    [minimum_latitude |-> minlat, maximum_latitude |-> maxlat,
     minimum_longitude |-> minlon, maximum_longitude |-> maxlon]

IsIncreasing(index) ==
    \A i, j \in 1..Len(index) : i < j => index[i] <= index[j]

Reverse(index) == [i \in 1..Len(index) |-> index[Len(index) + 1 - i]]

\* numpy searchsorted on an ascending array
searchsorted(a, v, side) ==
    IF side = "left" THEN Cardinality({i \in 1..Len(a) : a[i] < v})
    ELSE Cardinality({i \in 1..Len(a) : a[i] <= v})

\* pandas Index._searchsorted_monotonic
searchsorted_monotonic(index, label, side) ==
    IF IsIncreasing(index) THEN searchsorted(index, label, side)
    ELSE Len(index)
         - searchsorted(Reverse(index), label,
                        IF side = "left" THEN "right" ELSE "left")

\* pandas Index.get_slice_bound, 0-based
get_slice_bound(index, label, side) ==
    LET hits == {i \in 1..Len(index) : index[i] = label} IN
    IF hits # {}
    THEN LET loc == (CHOOSE i \in hits : TRUE) - 1
         IN  IF side = "right" THEN loc + 1 ELSE loc
    ELSE searchsorted_monotonic(index, label, side)

\* index.sel(slice(start, stop)): the labels the slice keeps, in stored order
sel(index, start, stop) ==
    LET lo == get_slice_bound(index, start, "left")
        hi == get_slice_bound(index, stop, "right")
    IN  SubSeq(index, lo + 1, hi)

NoDataset == [has |-> FALSE, lon |-> <<>>, lat |-> <<>>, vars |-> {}]

\* A plausible slip: the two slices are handed to the wrong dimensions
download_data_swapped(dom, rem) ==
    [has |-> TRUE,
     lon |-> sel(rem.lon, dom.minimum_latitude, dom.maximum_latitude),
     lat |-> sel(rem.lat, dom.minimum_longitude, dom.maximum_longitude),
     vars |-> rem.vars]

\* EMODnetBathymetryDownloader(dom).download_data() against source rem
download_data(dom, rem) ==
    [has |-> TRUE,
     lon |-> sel(rem.lon, dom.minimum_longitude, dom.maximum_longitude),
     lat |-> sel(rem.lat, dom.minimum_latitude, dom.maximum_latitude),
     vars |-> rem.vars]

----------------------------------------------------------------------------
(* main(): helpers                                                         *)

None == [isNone |-> TRUE, str |-> <<>>]

Str(s) == [isNone |-> FALSE, str |-> s]

\* A plausible slip: default="." so that a run without the flag saves
default_output_cwd == Str(<<".">>)

\* add_argument(..., default=None)
default_output == None

\* A plausible slip: "if args.output is not None"
Truthy_notNone(v) == ~v.isNone

\* bool(v) for v a string or None
Truthy(v) == ~v.isNone /\ v.str # <<>>

\* A plausible slip: any name is taken to be present
has_variable_any(ds, name) == TRUE

\* dataset[name] succeeds
has_variable(ds, name) == name \in ds.vars

\* A plausible slip: ".png" is appended whenever the path is no directory
ResolveFilename_always_png(F, c, out_path) ==
    IF isdir(F, c, out_path) THEN join(out_path, DefaultName)
    ELSE out_path \o PngExt

\* A plausible slip: the default extension is never appended
ResolveFilename_noappend(F, c, out_path) ==
    IF isdir(F, c, out_path) THEN join(out_path, DefaultName)
    ELSE out_path

\* The value of filename after the if/else on os.path.isdir(out_path)
ResolveFilename(F, c, out_path) ==
    IF isdir(F, c, out_path) THEN join(out_path, DefaultName)
    ELSE IF splitext(out_path)[2] = <<>> THEN out_path \o PngExt
    ELSE out_path

\* print(f"Saved plot to: {filename}")
ConfirmationLine(fname) == [kind |-> "saved", path |-> fname]

DatasetLine == [kind |-> "dataset", path |-> <<>>]

HelpLine == [kind |-> "help", path |-> <<>>]

\* A plausible slip: the else is missing, so plt.show() follows the save
AfterSave_fallthrough == "show"

\* Where main() goes after the save branch: it returns
AfterSave == "done"

minimum_latitude == 435

maximum_latitude == 460

minimum_longitude == 120

maximum_longitude == 180

\* The domain main() constructs
MainDomain ==
    DomainGeometry(minimum_latitude, maximum_latitude,
                   minimum_longitude, maximum_longitude)

----------------------------------------------------------------------------
(* Initial states                                                          *)

A == <<"a">>

Root == <<>>

InitNodes == {<<A>>, <<A, A>>, <<A \o PngExt>>}

\* The file systems a run may start in: every entry's parent is a directory
FileSystems ==
    {F \in {[dirs |-> {Root} \cup D, files |-> Fl] :
                D \in SUBSET InitNodes, Fl \in SUBSET InitNodes} :
        /\ F.dirs \cap F.files = {}
        /\ \A n \in F.dirs \cup F.files : Parent(n) \in F.dirs}

\* Values of --output that carry an extension the figure canvas can write
NamedOutputs ==
    {<<"a">> \o PngExt, <<"a", ".", "j", "p", "g">>, <<"a", ".", "P", "N", "G">>}

Argvs ==
    {[kind |-> k, value |-> <<>>] : k \in {"none", "help", "invalid"}}
    \cup {[kind |-> "output", value |-> s] :
             s \in Strings(MaxLen) \cup NamedOutputs}

MainLon == <<110, 120, 150, 180, 190>>

MainLat == <<430, 435, 450, 460, 465>>

Down == [up |-> FALSE, lon |-> <<>>, lat |-> <<>>, vars |-> {}]

MainRemotes ==
    {Down}
    \cup {[up |-> TRUE, lon |-> g[1], lat |-> g[2], vars |-> v] :
            g \in {<<MainLon, MainLat>>, <<Reverse(MainLon), Reverse(MainLat)>>},
            v \in {{"elevation"}, {"other"}}}

Coords == 0..MaxCoord

\* Strictly ascending or strictly descending coordinate axes
Axes ==
    {s \in UNION {[1..k -> Coords] : k \in 0..(MaxCoord + 1)} :
        \/ \A i, j \in 1..Len(s) : i < j => s[i] < s[j]
        \/ \A i, j \in 1..Len(s) : i < j => s[i] > s[j]}

Init ==
    /\ pc = "parse"
    /\ argv \in Argvs
    /\ args_output = None
    /\ domain = MainDomain
    /\ remote \in MainRemotes
    /\ dataset = NoDataset
    /\ figure = FALSE
    /\ filename = <<>>
    /\ fs \in FileSystems
    /\ fs0 = fs
    /\ cwd \in fs.dirs
    /\ stdout = <<>>
    /\ shown = FALSE
    /\ saved = <<>>
    /\ fault = "none"
    /\ log = <<>>
    /\ fetches = 0

\* A caller of the downloader alone, with any domain and any source grid
InitDownload ==
    /\ pc = "lib"
    /\ argv = [kind |-> "none", value |-> <<>>]
    /\ args_output = None
    /\ domain \in {DomainGeometry(a, b, c, d) :
                       a \in Coords, b \in Coords, c \in Coords, d \in Coords}
    /\ remote \in {[up |-> TRUE, lon |-> x, lat |-> y, vars |-> {"elevation"}] :
                       x \in Axes, y \in Axes}
    /\ dataset = NoDataset
    /\ figure = FALSE
    /\ filename = <<>>
    /\ fs = [dirs |-> {Root}, files |-> {}]
    /\ fs0 = fs
    /\ cwd = Root
    /\ stdout = <<>>
    /\ shown = FALSE
    /\ saved = <<>>
    /\ fault = "none"
    /\ log = <<>>
    /\ fetches = 0

----------------------------------------------------------------------------
(* main(): one action per statement group                                  *)

\* parser.parse_args()
Parse ==
    /\ pc = "parse"
    /\ log' = Append(log, "parse")
    /\ IF argv.kind = "help"
       THEN /\ stdout' = Append(stdout, HelpLine)
            /\ pc' = "exited"
            /\ fault' = "SystemExit"
            /\ UNCHANGED args_output
       ELSE IF argv.kind = "invalid"
       THEN /\ pc' = "exited"
            /\ fault' = "SystemExit"
            /\ UNCHANGED <<stdout, args_output>>
       ELSE /\ args_output' = IF argv.kind = "output" THEN Str(argv.value)
                              ELSE default_output
            /\ pc' = "fetch"
            /\ UNCHANGED <<stdout, fault>>
    /\ UNCHANGED <<argv, domain, remote, dataset, figure, filename, fs, fs0,
                   cwd, shown, saved, fetches>>

\* downloader = EMODnetBathymetryDownloader(domain); downloader.download_data()
Fetch ==
    /\ pc = "fetch"
    /\ log' = Append(log, "fetch")
    /\ fetches' = fetches + 1
    /\ IF remote.up
       THEN /\ dataset' = download_data(domain, remote)
            /\ pc' = "print"
            /\ UNCHANGED fault
       ELSE /\ pc' = "failed"
            /\ fault' = "OSError"
            /\ UNCHANGED dataset
    /\ UNCHANGED <<argv, args_output, domain, remote, figure, filename, fs,
                   fs0, cwd, stdout, shown, saved>>

\* print(dataset)
PrintDataset ==
    /\ pc = "print"
    /\ log' = Append(log, "print")
    /\ stdout' = Append(stdout, DatasetLine)
    /\ pc' = "getvar"
    /\ UNCHANGED <<argv, args_output, domain, remote, dataset, figure,
                   filename, fs, fs0, cwd, shown, saved, fault, fetches>>

\* da = dataset["elevation"]
GetVar ==
    /\ pc = "getvar"
    /\ IF has_variable(dataset, "elevation")
       THEN pc' = "plot" /\ UNCHANGED fault
       ELSE pc' = "failed" /\ fault' = "KeyError"
    /\ UNCHANGED <<argv, args_output, domain, remote, dataset, figure,
                   filename, fs, fs0, cwd, stdout, shown, saved, log, fetches>>

\* plt.figure(...); da.plot(cmap="terrain"); plt.title("Bathymetry")
Plot ==
    /\ pc = "plot"
    /\ log' = Append(log, "plot")
    /\ figure' = TRUE
    /\ pc' = "branch"
    /\ UNCHANGED <<argv, args_output, domain, remote, dataset, filename, fs,
                   fs0, cwd, stdout, shown, saved, fault, fetches>>

\* if args.output:
Branch ==
    /\ pc = "branch"
    /\ pc' = IF Truthy(args_output) THEN "resolve" ELSE "show"
    /\ UNCHANGED <<argv, args_output, domain, remote, dataset, figure,
                   filename, fs, fs0, cwd, stdout, shown, saved, fault, log,
                   fetches>>

\* out_path = args.output and the computation of filename
Resolve_filename ==
    /\ pc = "resolve"
    /\ filename' = ResolveFilename(fs, cwd, args_output.str)
    /\ pc' = "mkparent"
    /\ UNCHANGED <<argv, args_output, domain, remote, dataset, figure, fs,
                   fs0, cwd, stdout, shown, saved, fault, log, fetches>>

\* parent = os.path.dirname(filename); if parent: os.makedirs(parent, ...)
MakeParent ==
    /\ pc = "mkparent"
    /\ LET parent == dirname(filename)
           r      == IF parent # <<>> THEN makedirs(fs, cwd, parent)
                     ELSE [fs |-> fs, err |-> "none"]
       IN  /\ fs' = r.fs
           /\ IF r.err = "none"
              THEN pc' = "savefig" /\ UNCHANGED fault
              ELSE pc' = "failed" /\ fault' = r.err
    /\ UNCHANGED <<argv, args_output, domain, remote, dataset, figure,
                   filename, fs0, cwd, stdout, shown, saved, log, fetches>>

\* plt.savefig(filename, bbox_inches="tight", dpi=150)
SaveFig ==
    /\ pc = "savefig"
    /\ LET r == savefig(fs, cwd, filename)
       IN  /\ fs' = r.fs
           /\ IF r.err = "none"
              THEN /\ saved' = Append(saved, r.name)
                   /\ log' = Append(log, "save")
                   /\ pc' = "confirm"
                   /\ UNCHANGED fault
              ELSE /\ pc' = "failed"
                   /\ fault' = r.err
                   /\ UNCHANGED <<saved, log>>
    /\ UNCHANGED <<argv, args_output, domain, remote, dataset, figure,
                   filename, fs0, cwd, stdout, shown, fetches>>

\* print(f"Saved plot to: {filename}"), after which main() returns
Confirm ==
    /\ pc = "confirm"
    /\ stdout' = Append(stdout, ConfirmationLine(filename))
    /\ pc' = AfterSave
    /\ UNCHANGED <<argv, args_output, domain, remote, dataset, figure,
                   filename, fs, fs0, cwd, shown, saved, fault, log, fetches>>

\* plt.show(), after which main() returns
Show ==
    /\ pc = "show"
    /\ shown' = TRUE
    /\ log' = Append(log, "show")
    /\ pc' = "done"
    /\ UNCHANGED <<argv, args_output, domain, remote, dataset, figure,
                   filename, fs, fs0, cwd, stdout, saved, fault, fetches>>

Next ==
    \/ Parse
    \/ Fetch
    \/ PrintDataset
    \/ GetVar
    \/ Plot
    \/ Branch
    \/ Resolve_filename
    \/ MakeParent
    \/ SaveFig
    \/ Confirm
    \/ Show

Spec == Init /\ [][Next]_vars

\* EMODnetBathymetryDownloader(domain).download_data() called on its own
DownloadCall ==
    /\ pc = "lib"
    /\ dataset' = download_data(domain, remote)
    /\ fetches' = fetches + 1
    /\ pc' = "lib_done"
    /\ UNCHANGED <<argv, args_output, domain, remote, figure, filename, fs,
                   fs0, cwd, stdout, shown, saved, fault, log>>

NextDownload == DownloadCall

SpecDownload == InitDownload /\ [][NextDownload]_vars

----------------------------------------------------------------------------
(* Vocabulary of the properties                                            *)

\* The save branch has computed filename (a resolved filename is never empty)
Resolved == filename # <<>>

\* The --output value, when one was given
Out == argv.value

\* The part of p after its last separator
Basename(p) == SubSeq(p, RFind(p, sep) + 1, Len(p))

\* p has no extension: past its leading dots, its last name holds no dot
NoExtension(p) ==
    LET b == Basename(p) IN
    \A i \in 1..Len(b) : b[i] = "." => \A j \in 1..i : b[j] = "."

SavedLines == {i \in 1..Len(stdout) : stdout[i].kind = "saved"}

\* Nothing of the save branch has happened
Untouched ==
    /\ fs = fs0
    /\ saved = <<>>
    /\ SavedLines = {}
    /\ ~Resolved

InRange(x, lo, hi) == lo <= x /\ x <= hi

Values(index) == {index[i] : i \in 1..Len(index)}

----------------------------------------------------------------------------
(* Properties                                                              *)

\* C1: for a box with minimum <= maximum on both axes and a source grid
\* stored ascending or descending, every longitude download_data returns
\* lies in [minimum_longitude, maximum_longitude] and every latitude in
\* [minimum_latitude, maximum_latitude], and each is a coordinate of the
\* source: no point outside the box is returned.
C1_OnlyPointsInBox ==
    (/\ pc = "lib_done"
     /\ domain.minimum_latitude <= domain.maximum_latitude
     /\ domain.minimum_longitude <= domain.maximum_longitude)
    => /\ \A x \in Values(dataset.lon) :
             /\ InRange(x, domain.minimum_longitude, domain.maximum_longitude)
             /\ x \in Values(remote.lon)
       /\ \A y \in Values(dataset.lat) :
             /\ InRange(y, domain.minimum_latitude, domain.maximum_latitude)
             /\ y \in Values(remote.lat)

\* C1 witness: a slice that keeps some points of the source and drops others
C1_Witness ==
    /\ pc = "lib_done"
    /\ domain.minimum_latitude < domain.maximum_latitude
    /\ domain.minimum_longitude < domain.maximum_longitude
    /\ dataset.lon # <<>> /\ Len(dataset.lon) < Len(remote.lon)
    /\ dataset.lat # <<>> /\ Len(dataset.lat) < Len(remote.lat)

\* C2: when --output names an existing directory, filename is that directory
\* joined with "bathymetry.png" (one separator between them, none added
\* after a trailing one), and the file a successful save writes is the entry
\* bathymetry.png of that directory.
C2_DirectoryGetsDefaultName ==
    (Resolved /\ isdir(fs0, cwd, Out))
    => /\ filename = (IF Out[Len(Out)] = sep THEN Out ELSE Append(Out, sep))
                     \o DefaultName
       /\ saved # <<>>
          => Append(Resolve(fs0, cwd, Out).node, DefaultName) \in fs.files

\* C2 witness: --output "a/" with a/ existing saves to "a/bathymetry.png"
C2_Witness ==
    /\ pc = "done"
    /\ Out = <<"a", "/">>
    /\ isdir(fs0, cwd, Out)
    /\ saved = << <<"a", "/">> \o DefaultName >>

\* C3: when --output names no existing directory and has no extension,
\* filename is the given value with ".png" appended.
C3_NoExtensionGetsPng ==
    (Resolved /\ ~isdir(fs0, cwd, Out) /\ NoExtension(Out))
    => filename = Out \o PngExt

\* C3 witness: --output "a" saves to "a.png"
C3_Witness ==
    /\ pc = "done"
    /\ Out = <<"a">>
    /\ ~isdir(fs0, cwd, Out)
    /\ saved = << <<"a">> \o PngExt >>

\* C4: when --output names no existing directory and carries an extension,
\* filename is exactly the given value.
C4_ExtensionKept ==
    (Resolved /\ ~isdir(fs0, cwd, Out) /\ ~NoExtension(Out))
    => filename = Out

\* C4 witness: --output "a.jpg" saves to "a.jpg"
C4_Witness ==
    /\ pc = "done"
    /\ Out = <<"a", ".", "j", "p", "g">>
    /\ filename = Out
    /\ saved = <<Out>>

\* C5: a run without --output never enters the save branch, leaves the file
\* system as it found it, prints no confirmation line, and a run that
\* returns has shown the plot.
C5_NoFlagShowsAndTouchesNothing ==
    argv.kind = "none"
    => /\ Untouched
       /\ pc \notin {"resolve", "mkparent", "savefig", "confirm"}
       /\ pc = "done" => shown

\* C5 witness: a run without --output that returned after plt.show()
C5_Witness ==
    /\ pc = "done"
    /\ argv.kind = "none"
    /\ shown
    /\ log = <<"parse", "fetch", "print", "plot", "show">>

\* C6: when plt.savefig is about to write, the parent directory of filename
\* exists, and no run ends in a missing-directory fault (FileNotFoundError);
\* every file written lies in an existing directory.
C6_ParentExistsAtWrite ==
    /\ pc = "savefig"
       => LET parent == dirname(filename)
          IN  parent = <<>> \/ isdir(fs, cwd, parent)
    /\ fault # "FileNotFoundError"
    /\ \A n \in fs.files : Parent(n) \in fs.dirs

\* C6 witness: a save whose two missing parent directories were created
C6_Witness ==
    /\ pc = "done"
    /\ saved # <<>>
    /\ Cardinality(fs.dirs \ fs0.dirs) >= 2
    /\ ~isdir(fs0, cwd, dirname(filename))
    /\ isdir(fs, cwd, dirname(filename))

\* C7: a confirmation line is printed only once the figure has been written,
\* and the path it names is exactly the resolved filename the figure was
\* written to; a run that has written nothing has printed no confirmation
\* line.
C7_ConfirmationNamesSavedPath ==
    /\ \A i \in SavedLines :
          /\ saved # <<>>
          /\ stdout[i].path = filename
          /\ stdout[i].path = saved[Len(saved)]
    /\ Cardinality(SavedLines) <= 1
    /\ saved = <<>> => SavedLines = {}

\* C8: a run of main() that returns has parsed, fetched once, printed the
\* dataset, plotted once and then either saved or shown, in that order,
\* never both and never neither; no run writes more than one file.
C8_FixedOrderOneOutcome ==
    /\ pc = "done"
       => /\ log \in {<<"parse", "fetch", "print", "plot", "save">>,
                      <<"parse", "fetch", "print", "plot", "show">>}
          /\ fetches = 1
          /\ stdout[1] = DatasetLine
          /\ shown <=> saved = <<>>
    /\ Len(saved) <= 1
    /\ Cardinality(fs.files \ fs0.files) <= 1

\* C8 witness: a returned run that took the save outcome
C8_Witness ==
    /\ pc = "done"
    /\ log = <<"parse", "fetch", "print", "plot", "save">>
    /\ ~shown
    /\ Cardinality(fs.files \ fs0.files) = 1

\* C9: when the fetch fails or the dataset has no "elevation" variable, the
\* run ends failed after exactly one fetch and nothing later happens: no
\* figure, no plt.show(), no directory or file created, no confirmation.
C9_FetchFaultStopsRun ==
    (~remote.up \/ "elevation" \notin remote.vars)
    => /\ pc \in {"parse", "exited", "fetch", "print", "getvar", "failed"}
       /\ fetches <= 1
       /\ ~figure
       /\ ~shown
       /\ Untouched
       /\ pc = "failed"
          => /\ fetches = 1
             /\ fault = (IF remote.up THEN "KeyError" ELSE "OSError")
             /\ "plot" \notin Values(log)

\* C9 witness: a run that failed on the missing variable after printing
C9_Witness ==
    /\ pc = "failed"
    /\ fault = "KeyError"
    /\ remote.up
    /\ stdout = <<DatasetLine>>
    /\ fetches = 1

\* C10: the save branch is taken exactly when --output was given a non-empty
\* string; with --output "" the run shows the plot and writes nothing, as a
\* run without the flag does.
C10_SaveIffNonEmptyOutput ==
    /\ (Resolved \/ pc \in {"resolve", "mkparent", "savefig", "confirm"})
       => (argv.kind = "output" /\ Out # <<>>)
    /\ (shown \/ pc = "show") => ~(argv.kind = "output" /\ Out # <<>>)
    /\ (argv.kind = "output" /\ Out = <<>>)
       => /\ Untouched
          /\ pc = "done" => shown

\* C10 witness: a run with --output "" that returned after plt.show()
C10_Witness ==
    /\ pc = "done"
    /\ argv.kind = "output"
    /\ Out = <<>>
    /\ shown
    /\ fs = fs0

====
